---- MODULE Spec2Model ----
(***************************************************************************)
(* Model of bird_notifier.py: BirdNotifier.run and the operations it       *)
(* calls (get_notable_sightings, filter_new_sightings,                     *)
(* send_email_notification, _format_email_body).                           *)
(*                                                                         *)
(* Representation of Python values:                                        *)
(*  - a str is a sequence of characters (one-character TLA+ strings), or,  *)
(*    for texts no operation looks into, one TLA+ string;                  *)
(*  - a timestamp str is a sequence of lexical tokens:                     *)
(*      "D" a calendar date YYYY-MM-DD, "t" a time HH:MM, "00:00" the      *)
(*      time 00:00, and the single characters "T", " ", "+", "Z" and      *)
(*      "x" (any other character);                                         *)
(*  - an optional value (None, a missing dict key) is <<>> and a present   *)
(*    value v is <<v>>;                                                    *)
(*  - a JSON value is a record [type, items, fields, size]: items are the  *)
(*    elements of an array, fields the sighting keys of an object, size    *)
(*    the number of characters of a string or of further keys of an        *)
(*    object.                                                              *)
(***************************************************************************)
EXTENDS Integers, Sequences, FiniteSets, TLC

VARIABLES pc, runs, env, fetchOutcome, sightings, new_sightings, result,
          sendCalled, receiver_list, msg, smtpLog, sessionOpen, delivered,
          notified, html, addrs

vars == <<pc, runs, env, fetchOutcome, sightings, new_sightings, result,
          sendCalled, receiver_list, msg, smtpLog, sessionOpen, delivered,
          notified, html, addrs>>

(***************************************************************************)
(* Bounds                                                                  *)
(***************************************************************************)
MaxRuns == 2

MaxPayloadLen == 2

MaxSightings == 11

MaxStampLen == 4

MaxRecipients == 2

Min(a, b) == IF a < b THEN a ELSE b

SeqsUpTo(S, n) == UNION {[1..k -> S] : k \in 0..n}

(***************************************************************************)
(* JSON values and sighting dicts                                          *)
(***************************************************************************)
SightingKeys == {"comName", "sciName", "locName", "obsDt", "howMany", "lat", "lng"}

NoFields == [k \in SightingKeys |-> <<>>]

JArray(elems) == [type |-> "array", items |-> elems, fields |-> NoFields, size |-> 0]

JObject(f, extra) == [type |-> "object", items |-> <<>>, fields |-> f, size |-> extra]

JString(n) == [type |-> "string", items |-> <<>>, fields |-> NoFields, size |-> n]

JNumber == [type |-> "number", items |-> <<>>, fields |-> NoFields, size |-> 0]

JNull == [type |-> "null", items |-> <<>>, fields |-> NoFields, size |-> 0]

JBool == [type |-> "bool", items |-> <<>>, fields |-> NoFields, size |-> 0]

EmptyList == JArray(<<>>)

\* dict.get(key, default)
Get(d, key, default) == IF d.fields[key] = <<>> THEN default ELSE d.fields[key][1]

\* len(v); defined for list, dict and str only
HasLen(v) == v.type \in {"array", "object", "string"}

PyLen(v) ==
    CASE v.type = "array" -> Len(v.items)
      [] v.type = "object" -> Cardinality({k \in SightingKeys : v.fields[k] # <<>>}) + v.size
      [] v.type = "string" -> v.size
      [] OTHER -> 0

TruthyNotNone(v) == v.type # "null"

\* truth value of an object that has a length: empty is false
Truthy(v) == PyLen(v) > 0

\* the elements a for loop over v visits (the characters of a str are strs)
Elements(v) ==
    CASE v.type = "array" -> v.items
      [] v.type = "string" -> [i \in 1..v.size |-> JString(1)]
      [] OTHER -> <<>>

(***************************************************************************)
(* The sightings used as inputs                                            *)
(***************************************************************************)
Owl == JObject([comName |-> <<"Snowy Owl">>, sciName |-> <<"Bubo scandiacus">>,
                locName |-> <<"Marsta">>, obsDt |-> << <<"D", " ", "t">> >>,
                howMany |-> <<2>>, lat |-> <<59>>, lng |-> <<17>>], 3)

Crane == JObject([comName |-> <<"Demoiselle Crane">>, sciName |-> <<>>,
                  locName |-> <<>>, obsDt |-> << <<"x", "Z">> >>,
                  howMany |-> <<>>, lat |-> <<>>, lng |-> <<>>], 0)

Stamped(ts) == JObject([comName |-> <<"Hoopoe">>, sciName |-> <<"Upupa epops">>,
                        locName |-> <<>>, obsDt |-> <<ts>>,
                        howMany |-> <<1>>, lat |-> <<60>>, lng |-> <<18>>], 0)

IsSighting(v) == v.type = "object"

(***************************************************************************)
(* Timestamp formatting (lines 144-148)                                    *)
(***************************************************************************)
\* datetime.fromisoformat takes any single character between date and time
Separators == {"T", " ", "+", "x"}

IsTime(tok) == tok \in {"t", "00:00"}

\* obs_date.replace('Z', '+00:00'): every Z of the string is replaced
RECURSIVE ReplaceZ(_)
ReplaceZ(ts) ==
    IF ts = <<>> THEN <<>>
    ELSE (IF Head(ts) = "Z" THEN <<"+", "00:00">> ELSE <<Head(ts)>>) \o ReplaceZ(Tail(ts))

\* the strings datetime.fromisoformat accepts: a date, optionally followed
\* by one character and a time, optionally followed by a UTC offset
IsIsoFormat(ts) ==
    \/ ts = <<"D">>
    \/ /\ Len(ts) \in {3, 5}
       /\ ts[1] = "D"
       /\ ts[2] \in Separators
       /\ IsTime(ts[3])
       /\ Len(ts) = 5 => (ts[4] = "+" /\ IsTime(ts[5]))

\* dt.strftime('%Y-%m-%d %H:%M'); a date without a time is midnight
Strftime(ts) == <<"D", " ", IF Len(ts) >= 3 THEN ts[3] ELSE "00:00">>

FormatDateNormalized(obs_date) ==
    IF IsIsoFormat(ReplaceZ(obs_date)) THEN Strftime(ReplaceZ(obs_date))
    ELSE ReplaceZ(obs_date)

FormatDate(obs_date) ==
    IF IsIsoFormat(ReplaceZ(obs_date)) THEN Strftime(ReplaceZ(obs_date))
    ELSE obs_date

(***************************************************************************)
(* _format_email_body (lines 121-191)                                      *)
(***************************************************************************)
BodyLimit == 10

SliceAll(s) == s

\* sightings[:10]
FirstTen(s) == SubSeq(s, 1, Min(BodyLimit, Len(s)))

\* one <div> of the loop body, lines 135-169
Block(sighting) ==
    [species_name |-> Get(sighting, "comName", "Unknown species"),
     scientific_name |-> Get(sighting, "sciName", ""),
     location |-> Get(sighting, "locName", "Unknown location"),
     formatted_date |-> FormatDate(Get(sighting, "obsDt", <<>>)),
     how_many |-> Get(sighting, "howMany", 1),
     plural |-> Get(sighting, "howMany", 1) # 1,
     maps_url |-> <<Get(sighting, "lat", 0), Get(sighting, "lng", 0)>>]

\* the formatter raises when its argument cannot be sliced (a dict) or an
\* element it visits has no .get (anything but a dict)
FormatRaises(s) ==
    \/ s.type = "object"
    \/ \E i \in 1..Len(FirstTen(Elements(s))) : ~IsSighting(FirstTen(Elements(s))[i])

NoDoc == [count |-> 0, plural |-> FALSE, blocks |-> <<>>]

_format_email_body(s) ==
    [count |-> PyLen(s),
     plural |-> PyLen(s) > 1,
     blocks |-> [i \in 1..Len(FirstTen(Elements(s))) |-> Block(FirstTen(Elements(s))[i])]]

(***************************************************************************)
(* Recipient list (line 100)                                               *)
(***************************************************************************)
Whitespace == {" ", "\t"}

RECURSIVE LStrip(_)
LStrip(s) == IF s # <<>> /\ Head(s) \in Whitespace THEN LStrip(Tail(s)) ELSE s

RECURSIVE RStrip(_)
RStrip(s) ==
    IF s # <<>> /\ s[Len(s)] \in Whitespace THEN RStrip(SubSeq(s, 1, Len(s) - 1)) ELSE s

NoStrip(s) == s

\* str.strip()
Strip(s) == RStrip(LStrip(s))

\* str.split(',')
RECURSIVE SplitComma(_)
SplitComma(s) ==
    IF \E i \in 1..Len(s) : s[i] = ","
    THEN LET i == CHOOSE j \in 1..Len(s) : s[j] = "," /\ \A k \in 1..(j - 1) : s[k] # ","
         IN <<SubSeq(s, 1, i - 1)>> \o SplitComma(SubSeq(s, i + 1, Len(s)))
    ELSE <<s>>

\* [email.strip() for email in receiver_emails.split(',')]
ReceiverList(receiver_emails) ==
    [i \in 1..Len(SplitComma(receiver_emails)) |-> Strip(SplitComma(receiver_emails)[i])]

\* ', '.join(receiver_list)
RECURSIVE JoinCommaSpace(_)
JoinCommaSpace(l) ==
    IF l = <<>> THEN <<>>
    ELSE IF Len(l) = 1 THEN l[1]
    ELSE l[1] \o <<",", " ">> \o JoinCommaSpace(Tail(l))

(***************************************************************************)
(* Configuration read from the environment (lines 86-94)                   *)
(***************************************************************************)
Getenv(name) == env[name]

\* truth value of an Optional[str]: None and '' are false
Configured(v) == v # <<>> /\ v[1] # <<>>

AnyConfigured ==
    \/ Configured(Getenv("SENDER_EMAIL"))
    \/ Configured(Getenv("SENDER_PASSWORD"))
    \/ Configured(Getenv("RECEIVER_EMAIL"))

\* all([sender_email, sender_password, receiver_emails])
AllConfigured ==
    /\ Configured(Getenv("SENDER_EMAIL"))
    /\ Configured(Getenv("SENDER_PASSWORD"))
    /\ Configured(Getenv("RECEIVER_EMAIL"))

(***************************************************************************)
(* Inputs: outcomes of the HTTP GET, configurations                        *)
(***************************************************************************)
JunkElements == {JNumber}

ErrorObject == JObject(NoFields, 1)

Payloads ==
    {JArray(l) : l \in SeqsUpTo({Owl, Crane} \cup JunkElements, MaxPayloadLen)}
        \cup {JObject(NoFields, 0), ErrorObject, Owl, JString(0), JString(2),
              JNumber, JNull, JBool}

\* kind "ok": 2xx response whose body parses to payload;
\* "http_error": raise_for_status() raises, the body would parse to payload;
\* "transport_error": requests.get raises; "bad_json": response.json() raises
FetchOutcomes ==
    [kind : {"ok", "http_error"}, payload : Payloads]
        \cup [kind : {"transport_error", "bad_json"}, payload : {JNull}]

NoFetch == [kind |-> "none", payload |-> JNull]

Str(text) == <<text>>

None == <<>>

TwoRecipients == <<"a", ",", " ", "b">>

Envs ==
    [SENDER_EMAIL : {None, Str(<<>>), Str(<<"s">>)},
     SENDER_PASSWORD : {None, Str(<<"p">>)},
     RECEIVER_EMAIL : {None, Str(<<>>), Str(TwoRecipients)}]

(***************************************************************************)
(* get_notable_sightings (lines 30-58)                                     *)
(***************************************************************************)
get_notable_sightings_unchecked(outcome) ==
    IF outcome.kind \in {"ok", "http_error"} /\ HasLen(outcome.payload)
    THEN outcome.payload
    ELSE EmptyList

\* every exception raised in the try block, len() of the payload included,
\* ends in "return []"
get_notable_sightings(outcome) ==
    IF outcome.kind = "ok" /\ HasLen(outcome.payload)
    THEN outcome.payload
    ELSE EmptyList

(***************************************************************************)
(* filter_new_sightings (lines 76-82)                                      *)
(***************************************************************************)
filter_already_notified(s) ==
    IF s.type = "array"
    THEN JArray(SelectSeq(s.items, LAMBDA e : e \notin notified))
    ELSE s

filter_new_sightings(s) == s

(***************************************************************************)
(* Results of run (lines 203-207, 218-222, 225-229)                        *)
(***************************************************************************)
NoResult == [returned |-> FALSE, alert |-> FALSE, sightings_count |-> 0, sightings |-> EmptyList]

NoAlertResult == [returned |-> TRUE, alert |-> FALSE, sightings_count |-> 0, sightings |-> EmptyList]

AlertResult(new) == [returned |-> TRUE, alert |-> TRUE, sightings_count |-> PyLen(new), sightings |-> new]

NoMsg == [composed |-> FALSE, From |-> <<>>, To |-> <<>>, subject_count |-> 0,
          subject_plural |-> FALSE, body |-> NoDoc]

\* lines 102-109
ComposeMessage(s, receivers) ==
    [composed |-> TRUE,
     From |-> Getenv("SENDER_EMAIL"),
     To |-> JoinCommaSpace(receivers),
     subject_count |-> PyLen(s),
     subject_plural |-> PyLen(s) > 1,
     body |-> _format_email_body(s)]

(***************************************************************************)
(* Initial state: a process about to call run()                            *)
(***************************************************************************)
RunStart ==
    /\ fetchOutcome = NoFetch
    /\ sightings = EmptyList
    /\ new_sightings = EmptyList
    /\ result = NoResult
    /\ sendCalled = FALSE
    /\ receiver_list = <<>>
    /\ msg = NoMsg
    /\ smtpLog = <<>>
    /\ sessionOpen = FALSE
    /\ delivered = <<>>
    /\ html = NoDoc

Init ==
    /\ pc = "start"
    /\ runs = 1
    /\ env \in Envs
    /\ notified = {}
    /\ addrs = <<>>
    /\ RunStart

(***************************************************************************)
(* run (lines 193-229)                                                     *)
(***************************************************************************)
\* line 199: sightings = self.get_notable_sightings()
Fetch ==
    /\ pc = "start"
    /\ \E outcome \in FetchOutcomes :
          /\ fetchOutcome' = outcome
          /\ sightings' = get_notable_sightings(outcome)
    /\ pc' = "fetched"
    /\ UNCHANGED <<runs, env, new_sightings, result, sendCalled, receiver_list,
                   msg, smtpLog, sessionOpen, delivered, notified, html, addrs>>

\* lines 201-207: nothing fetched
ReturnNoSightings ==
    /\ pc = "fetched"
    /\ ~Truthy(sightings)
    /\ result' = NoAlertResult
    /\ pc' = "done"
    /\ UNCHANGED <<runs, env, fetchOutcome, sightings, new_sightings, sendCalled,
                   receiver_list, msg, smtpLog, sessionOpen, delivered, notified,
                   html, addrs>>

\* lines 210-229 with send_email_notification up to the try block
\* (lines 86-109): the filter, the configuration check, the recipient list
\* and the message. An exception of lines 100-109 leaves run().
Notify ==
    /\ pc = "fetched"
    /\ Truthy(sightings)
    /\ new_sightings' = filter_new_sightings(sightings)
    /\ IF ~Truthy(new_sightings')
       THEN \* lines 223-229
            /\ result' = NoAlertResult
            /\ pc' = "done"
            /\ UNCHANGED <<sendCalled, receiver_list, msg>>
       ELSE /\ sendCalled' = TRUE
            /\ IF ~AllConfigured \/ ~Truthy(new_sightings')
               THEN \* lines 92-98: return, then lines 218-222
                    /\ result' = AlertResult(new_sightings')
                    /\ pc' = "done"
                    /\ UNCHANGED <<receiver_list, msg>>
               ELSE IF Getenv("RECEIVER_EMAIL") = None \/ FormatRaises(new_sightings')
               THEN \* None has no split; the formatter raises
                    /\ pc' = "raised"
                    /\ UNCHANGED <<result, receiver_list, msg>>
               ELSE /\ receiver_list' = ReceiverList(Getenv("RECEIVER_EMAIL")[1])
                    /\ msg' = ComposeMessage(new_sightings', receiver_list')
                    /\ pc' = "smtp_connect"
                    /\ UNCHANGED result
    /\ UNCHANGED <<runs, env, fetchOutcome, sightings, smtpLog, sessionOpen,
                   delivered, notified, html, addrs>>

(***************************************************************************)
(* send_email_notification, the try block (lines 111-119).  Each SMTP      *)
(* call either returns or raises; an exception is caught at line 118, the  *)
(* function returns and run() returns the alert result (lines 218-222).    *)
(***************************************************************************)
SmtpOrder == <<"connect", "starttls", "login", "send_message", "quit">>

StepIndex(step) == CHOOSE i \in 1..Len(SmtpOrder) : SmtpOrder[i] = step

AfterStepIgnoringFailure(step, ok) ==
    IF step # "quit" THEN "smtp_" \o SmtpOrder[StepIndex(step) + 1] ELSE "done"

\* the statement reached after an SMTP call: the next line of the try
\* block when the call returned, the end of the function when it raised
AfterStep(step, ok) ==
    IF ok /\ step # "quit" THEN "smtp_" \o SmtpOrder[StepIndex(step) + 1] ELSE "done"

SmtpCall(step, ok) ==
    /\ pc = "smtp_" \o step
    /\ smtpLog' = Append(smtpLog, [step |-> step, ok |-> ok])
    /\ pc' = AfterStep(step, ok)
    /\ result' = IF pc' = "done" THEN AlertResult(new_sightings) ELSE result

\* line 112: server = smtplib.SMTP(smtp_server, smtp_port)
SmtpConnect ==
    /\ \E ok \in BOOLEAN :
          /\ SmtpCall("connect", ok)
          /\ sessionOpen' = ok
    /\ UNCHANGED <<runs, env, fetchOutcome, sightings, new_sightings, sendCalled,
                   receiver_list, msg, delivered, notified, html, addrs>>

\* line 113: server.starttls()
SmtpStarttls ==
    /\ \E ok \in BOOLEAN : SmtpCall("starttls", ok)
    /\ UNCHANGED <<runs, env, fetchOutcome, sightings, new_sightings, sendCalled,
                   receiver_list, msg, sessionOpen, delivered, notified, html, addrs>>

\* line 114: server.login(sender_email, sender_password)
SmtpLogin ==
    /\ \E ok \in BOOLEAN : SmtpCall("login", ok)
    /\ UNCHANGED <<runs, env, fetchOutcome, sightings, new_sightings, sendCalled,
                   receiver_list, msg, sessionOpen, delivered, notified, html, addrs>>

\* line 115: server.send_message(msg)
SmtpSendMessage ==
    /\ \E ok \in BOOLEAN :
          /\ SmtpCall("send_message", ok)
          /\ delivered' = IF ok THEN Append(delivered, msg) ELSE delivered
          /\ notified' = IF ok THEN notified \cup {new_sightings.items[i] :
                                                     i \in 1..Len(new_sightings.items)}
                         ELSE notified
    /\ UNCHANGED <<runs, env, fetchOutcome, sightings, new_sightings, sendCalled,
                   receiver_list, msg, sessionOpen, html, addrs>>

\* line 116: server.quit(); the QUIT command is issued and the socket is
\* closed whether or not the server answers
SmtpQuit ==
    /\ \E ok \in BOOLEAN : SmtpCall("quit", ok)
    /\ sessionOpen' = FALSE
    /\ UNCHANGED <<runs, env, fetchOutcome, sightings, new_sightings, sendCalled,
                   receiver_list, msg, delivered, notified, html, addrs>>

\* lines 232-234: the next invocation of the script, a new process with
\* the same environment; nothing of the previous run is kept (notified
\* is a history variable of the model, not of the program)
NewRun ==
    /\ pc \in {"done", "raised"}
    /\ runs < MaxRuns
    /\ runs' = runs + 1
    /\ pc' = "start"
    /\ fetchOutcome' = NoFetch
    /\ sightings' = EmptyList
    /\ new_sightings' = EmptyList
    /\ result' = NoResult
    /\ sendCalled' = FALSE
    /\ receiver_list' = <<>>
    /\ msg' = NoMsg
    /\ smtpLog' = <<>>
    /\ sessionOpen' = FALSE
    /\ delivered' = <<>>
    /\ html' = NoDoc
    /\ UNCHANGED <<env, notified, addrs>>

Next ==
    \/ Fetch
    \/ ReturnNoSightings
    \/ Notify
    \/ SmtpConnect
    \/ SmtpStarttls
    \/ SmtpLogin
    \/ SmtpSendMessage
    \/ SmtpQuit
    \/ NewRun

Spec == Init /\ [][Next]_vars

(***************************************************************************)
(* _format_email_body applied to lists of sightings                        *)
(***************************************************************************)
Tokens == {"D", "t", "T", " ", "+", "Z", "x"}

\* the lists the formatter is applied to: every list of up to MaxSightings
\* sightings out of two, and lists with a sighting of every timestamp of
\* up to MaxStampLen tokens
IsFormatInput(s) ==
    \/ \E n \in 0..MaxSightings : \E l \in [1..n -> {Owl, Crane}] : s = JArray(l)
    \/ \E n \in 0..MaxStampLen : \E ts \in [1..n -> Tokens] :
          s \in {JArray(<<Stamped(ts)>>), JArray(<<Stamped(ts), Owl>>),
                 JArray(<<Crane, Stamped(ts)>>)}

FullEnv ==
    [SENDER_EMAIL |-> Str(<<"s">>), SENDER_PASSWORD |-> Str(<<"p">>),
     RECEIVER_EMAIL |-> Str(TwoRecipients)]

InitFormat ==
    /\ pc = "format_input"
    /\ runs = 1
    /\ env = FullEnv
    /\ notified = {}
    /\ addrs = <<>>
    /\ fetchOutcome = NoFetch
    /\ IsFormatInput(sightings)
    /\ new_sightings = EmptyList
    /\ result = NoResult
    /\ sendCalled = FALSE
    /\ receiver_list = <<>>
    /\ msg = NoMsg
    /\ smtpLog = <<>>
    /\ sessionOpen = FALSE
    /\ delivered = <<>>
    /\ html = NoDoc

\* line 103: body = self._format_email_body(sightings)
FormatBody ==
    /\ pc = "format_input"
    /\ IF FormatRaises(sightings)
       THEN pc' = "raised" /\ UNCHANGED html
       ELSE pc' = "format_done" /\ html' = _format_email_body(sightings)
    /\ UNCHANGED <<runs, env, fetchOutcome, sightings, new_sightings, result,
                   sendCalled, receiver_list, msg, smtpLog, sessionOpen, delivered,
                   notified, addrs>>

NextFormat == FormatBody

SpecFormat == InitFormat /\ [][NextFormat]_vars

(***************************************************************************)
(* The recipient list of send_email_notification for RECEIVER_EMAIL        *)
(* strings written as addresses, each with optional whitespace around it,  *)
(* separated by commas                                                     *)
(***************************************************************************)
Addresses == {<<"a">>, <<"b", "@", "c">>, <<"d", " ", "e">>}

Pads == {<<>>, <<" ">>, <<"\t", " ">>}

AddressLists == UNION {[1..k -> Addresses] : k \in 1..MaxRecipients}

RECURSIVE WriteRecipients(_, _, _)
WriteRecipients(a, left, right) ==
    IF a = <<>> THEN <<>>
    ELSE left[1] \o a[1] \o right[1]
            \o (IF Len(a) = 1 THEN <<>>
                ELSE <<",">> \o WriteRecipients(Tail(a), Tail(left), Tail(right)))

InitRecipients ==
    /\ pc = "fetched"
    /\ runs = 1
    /\ notified = {}
    /\ \E a \in AddressLists :
          \E left \in [1..Len(a) -> Pads], right \in [1..Len(a) -> Pads] :
             /\ addrs = a
             /\ env = [SENDER_EMAIL |-> Str(<<"s">>), SENDER_PASSWORD |-> Str(<<"p">>),
                       RECEIVER_EMAIL |-> Str(WriteRecipients(a, left, right))]
    /\ fetchOutcome = [kind |-> "ok", payload |-> JArray(<<Owl>>)]
    /\ sightings = JArray(<<Owl>>)
    /\ new_sightings = EmptyList
    /\ result = NoResult
    /\ sendCalled = FALSE
    /\ receiver_list = <<>>
    /\ msg = NoMsg
    /\ smtpLog = <<>>
    /\ sessionOpen = FALSE
    /\ delivered = <<>>
    /\ html = NoDoc

NextRecipients == Notify

SpecRecipients == InitRecipients /\ [][NextRecipients]_vars

(***************************************************************************)
(* Properties                                                              *)
(***************************************************************************)
SmtpPcs == {"smtp_connect", "smtp_starttls", "smtp_login", "smtp_send_message", "smtp_quit"}

Fetched == fetchOutcome.kind # "none"

FetchFailed ==
    \/ fetchOutcome.kind \in {"transport_error", "http_error", "bad_json"}
    \/ fetchOutcome.kind = "ok" /\ fetchOutcome.payload.type \in {"number", "null", "bool"}

SomethingMissing ==
    \E k \in {"SENDER_EMAIL", "SENDER_PASSWORD", "RECEIVER_EMAIL"} :
        env[k] = <<>> \/ env[k] = << <<>> >>

ListOfSightings(v) ==
    /\ v.type = "array"
    /\ \A i \in 1..Len(v.items) : v.items[i].type = "object"

\* C1: for every outcome of the fetch and of each SMTP step, with a
\* well-formed configuration, no exception of the fetch or of the send
\* path leaves run(): a run never ends by raising.
C1_NoFailurePropagates == pc # "raised"

\* C2: when the fetch yields zero sightings the send operation is never
\* attempted (send_email_notification is not called, no SMTP step is
\* taken) and run() returns alert=false, sightings_count=0 and an empty
\* list.
C2_NoSightingsNoSend ==
    (Fetched /\ PyLen(sightings) = 0) =>
        /\ pc \in {"fetched", "done"}
        /\ ~sendCalled
        /\ smtpLog = <<>>
        /\ ~sessionOpen
        /\ pc = "done" =>
              result = [returned |-> TRUE, alert |-> FALSE, sightings_count |-> 0,
                        sightings |-> JArray(<<>>)]

C2_Witness ==
    /\ pc = "done"
    /\ fetchOutcome = [kind |-> "ok", payload |-> JArray(<<>>)]
    /\ ~SomethingMissing
    /\ result.returned
    /\ ~result.alert

\* C3: when the fetch yields N > 0 sightings and the sender address, the
\* sender credential or the recipient list is missing, no SMTP connection
\* is opened during the run and run() returns alert=true,
\* sightings_count=N and the N fetched sightings.
C3_NotConfiguredNoSmtp ==
    (Fetched /\ PyLen(sightings) > 0 /\ SomethingMissing) =>
        /\ pc \in {"fetched", "done"}
        /\ smtpLog = <<>>
        /\ ~sessionOpen
        /\ delivered = <<>>
        /\ pc = "done" =>
              /\ result.returned
              /\ result.alert
              /\ result.sightings_count = PyLen(fetchOutcome.payload)
              /\ result.sightings = fetchOutcome.payload

C3_Witness ==
    /\ pc = "done"
    /\ fetchOutcome = [kind |-> "ok", payload |-> JArray(<<Owl, Crane>>)]
    /\ env["SENDER_PASSWORD"] = <<>>
    /\ env["SENDER_EMAIL"] = << <<"s">> >>
    /\ env["RECEIVER_EMAIL"] = << <<"a", ",", " ", "b">> >>
    /\ sendCalled
    /\ result.alert
    /\ result.sightings_count = 2

\* C4: a run whose fetch fails (transport error, HTTP error status, an
\* exception while parsing the response) and a run whose fetch returns an
\* empty list are in the same state: get_notable_sightings returned an
\* empty sequence, no send is attempted, and run() returns alert=false,
\* sightings_count=0 and an empty list.
C4_FetchFailureLikeEmpty ==
    (FetchFailed \/ fetchOutcome = [kind |-> "ok", payload |-> JArray(<<>>)]) =>
        /\ pc \in {"fetched", "done"}
        /\ sightings = JArray(<<>>)
        /\ new_sightings = JArray(<<>>)
        /\ ~sendCalled
        /\ msg = NoMsg
        /\ smtpLog = <<>>
        /\ ~sessionOpen
        /\ delivered = <<>>
        /\ result = IF pc = "done"
                    THEN [returned |-> TRUE, alert |-> FALSE, sightings_count |-> 0,
                          sightings |-> JArray(<<>>)]
                    ELSE NoResult

C4_Witness ==
    /\ pc = "done"
    /\ fetchOutcome = [kind |-> "http_error", payload |-> JArray(<<Owl>>)]
    /\ ~SomethingMissing
    /\ result.returned
    /\ ~result.alert

\* C5: every SMTP session send_email_notification opens is closed (quit
\* is issued) before it returns, whichever of STARTTLS, login and
\* send_message fails: no session is open when the run is over.
C5_SessionClosedOnReturn == pc = "done" => ~sessionOpen

\* C6: the filter returns its input unchanged and a run depends on
\* nothing earlier runs did: with the sender fully configured and every
\* SMTP step succeeding, a run whose fetch returns a list of sightings
\* sends one notification about the whole list (its subject and header
\* count all of them, its blocks are those of the fetched list in order)
\* and returns them, also for sightings an earlier run notified about;
\* each run starts from the initial state.
C6_RenotifiesEveryRun ==
    /\ pc = "start" => RunStart
    /\ (pc \in SmtpPcs \cup {"done"} /\ PyLen(sightings) > 0) => new_sightings = sightings
    /\ ( /\ pc = "done"
         /\ ~SomethingMissing
         /\ ListOfSightings(sightings)
         /\ sightings.items # <<>>
         /\ \A i \in 1..Len(smtpLog) : smtpLog[i].ok )
       => /\ Len(delivered) = 1
          /\ delivered[1].subject_count = Len(sightings.items)
          /\ delivered[1].body.count = Len(sightings.items)
          /\ \A i \in 1..Len(sightings.items) :
                i <= 10 => delivered[1].body.blocks[i].species_name
                              = sightings.items[i].fields["comName"][1]
          /\ result.alert
          /\ result.sightings = sightings

C6_Witness ==
    /\ pc = "done"
    /\ runs = 2
    /\ Owl \in notified
    /\ sightings = JArray(<<Crane, Owl>>)
    /\ Len(delivered) = 1
    /\ delivered[1].subject_count = 2
    /\ delivered[1].body.blocks[2].species_name = "Snowy Owl"

\* C7: for a list of N sightings the formatter renders exactly min(10, N)
\* blocks, block i for the i-th sighting of the input, and the header
\* shows the total N.
C7_BlocksAndCount ==
    pc = "format_done" =>
        /\ Len(html.blocks) = IF Len(sightings.items) < 10 THEN Len(sightings.items) ELSE 10
        /\ \A i \in 1..Len(html.blocks) :
              html.blocks[i].species_name = sightings.items[i].fields["comName"][1]
        /\ html.count = Len(sightings.items)

C7_Witness ==
    /\ pc = "format_done"
    /\ Len(sightings.items) = 11
    /\ sightings.items[10] = Crane
    /\ sightings.items[11] = Owl
    /\ Len(html.blocks) = 10
    /\ html.blocks[10].species_name = "Demoiselle Crane"
    /\ html.count = 11

\* the timestamps that parse: a date, a date and a time with one character
\* between them, either of them followed by a UTC offset or by Z
ParsedTimestamps ==
    {<<"D">>, <<"D", "Z">>, <<"D", "Z", "Z">>, <<"D", "Z", "+", "t">>}
        \cup {<<"D", c, "t">> : c \in {"T", " ", "+", "x"}}
        \cup {<<"D", c, "t", "Z">> : c \in {"T", " ", "+", "x"}}
        \cup {<<"D", c, "t", "+", "t">> : c \in {"T", " ", "+", "x"}}

\* C8: a sighting whose timestamp cannot be parsed (the ISO-8601 parser
\* rejects it) does not make the formatter fail: its block shows the
\* timestamp string exactly as received, and every sighting of the list
\* has its block.
C8_MalformedTimestampRaw ==
    pc \in {"format_done", "raised"} =>
        /\ pc = "format_done"
        /\ Len(html.blocks) = Len(FirstTen(sightings.items))
        /\ \A i \in 1..Len(html.blocks) :
              sightings.items[i].fields["obsDt"][1] \notin ParsedTimestamps
                 => html.blocks[i].formatted_date = sightings.items[i].fields["obsDt"][1]

C8_Witness ==
    /\ pc = "format_done"
    /\ sightings = JArray(<<Stamped(<<"D", "T", "Z">>), Owl>>)
    /\ Len(html.blocks) = 2
    /\ html.blocks[1].formatted_date = <<"D", "T", "Z">>
    /\ html.blocks[2].formatted_date = <<"D", " ", "t">>

\* C9: a recipient string of k comma-separated addresses, each with any
\* whitespace around it, yields exactly those k addresses in order, none
\* with leading or trailing whitespace.
C9_RecipientsSplitAndTrimmed ==
    pc # "fetched" =>
        /\ pc = "smtp_connect"
        /\ Len(receiver_list) = Len(addrs)
        /\ receiver_list = addrs
        /\ \A i \in 1..Len(receiver_list) :
              /\ receiver_list[i] # <<>>
              /\ receiver_list[i][1] \notin {" ", "\t"}
              /\ receiver_list[i][Len(receiver_list[i])] \notin {" ", "\t"}

C9_Witness ==
    /\ pc = "smtp_connect"
    /\ env["RECEIVER_EMAIL"] = << <<"a", ",", " ", "b", "@", "c">> >>
    /\ receiver_list = << <<"a">>, <<"b", "@", "c">> >>

\* C10: within one run the SMTP steps occur only in the order connect,
\* STARTTLS, login, send_message, quit, each attempted only after the
\* previous one succeeded; at most one session is opened and at most one
\* message is sent per run.
C10_SmtpStepsInOrder ==
    /\ Len(smtpLog) <= 5
    /\ \A i \in 1..Len(smtpLog) :
          /\ smtpLog[i].step = <<"connect", "starttls", "login", "send_message", "quit">>[i]
          /\ i > 1 => smtpLog[i - 1].ok
    /\ Len(delivered) <= 1
    /\ delivered # <<>> =>
          /\ Len(smtpLog) >= 4
          /\ smtpLog[4] = [step |-> "send_message", ok |-> TRUE]
    /\ sessionOpen => (smtpLog # <<>> /\ smtpLog[1].ok)

C10_Witness ==
    /\ pc = "done"
    /\ Len(smtpLog) = 5
    /\ \A i \in 1..5 : smtpLog[i].ok
    /\ Len(delivered) = 1
    /\ ~sessionOpen

====
